---------------------------- MODULE Spec2Model ----------------------------
(***************************************************************************)
(* A model of jsonlines2tei.py: the conversion of a jsonlines corpus into  *)
(* pairs of TEI-URS files (text and stand-off annotations).                *)
(*                                                                         *)
(* Python strings are sequences of one-character strings, so that joining, *)
(* suffixing, escaping and the regular-expression substitutions are        *)
(* computed and not assumed.  Python indices are kept 0-based in the data  *)
(* (token indices, mention and chain ids) and shifted by one only where a  *)
(* TLA+ sequence is accessed.  A document is a function from its keys to   *)
(* their values; an optional key is absent from its DOMAIN.                *)
(***************************************************************************)
EXTENDS Integers, Sequences, FiniteSets, TLC

VARIABLES
    lines,      \* main: the lines of the input file
    cur,        \* main: 1-based position of the line being processed
    xml_dir,    \* main: args.xml_dir
    urs_dir,    \* main: args.urs_dir
    fs,         \* the file system: path -> content, for the files that exist
    snapshot,   \* history: fs as it was when the current line was read
    doc,        \* the document being processed
    first,      \* the naming mode (first = not args.longest)
    pc,         \* the position in the program
    exc,        \* the exception that ended the run ("none" while running)
    clusters,   \* _get_refnames: the dict id(cluster) -> name, in insertion order
    used,       \* _get_refnames: the set of used names
    ci,         \* _get_refnames: 1-based position of the deduplication loop
    names,      \* _build_urs: what _get_refnames returned
    t,          \* _build_text: running global token index
    p,          \* _build_text: running paragraph index
    s,          \* _build_text: sentence index (enumerate)
    t_local,    \* _build_text: token index in the sentence (enumerate)
    res,        \* _build_text: the text being built, a sequence of pieces
    m,          \* _build_urs: running global mention index
    c,          \* _build_urs: 0-based index of the cluster being iterated
    k,          \* _build_urs: 0-based index of the mention in its cluster
    offset,     \* _build_urs: mentions of the clusters before c (second loop)
    ures,       \* _build_urs: res, the annotation groups being built
    div,        \* _build_urs: div, the feature structures being built
    xml_text,   \* jsonlines2tei: the text document
    xml_urs,    \* jsonlines2tei: the annotation document
    fn          \* jsonlines2tei: the file stem

vars == <<lines, cur, xml_dir, urs_dir, fs, snapshot, doc, first, pc, exc,
          clusters, used, ci, names, t, p, s, t_local, res,
          m, c, k, offset, ures, div, xml_text, xml_urs, fn>>

mainVars == <<lines, cur, xml_dir, urs_dir, fs, snapshot>>
nameVars == <<clusters, used, ci>>
textVars == <<t, p, s, t_local, res>>
ursVars  == <<m, c, k, offset, ures, div>>
fileVars == <<xml_text, xml_urs, fn>>

(***************************************************************************)
(* Bounds of the model.                                                    *)
(***************************************************************************)
MaxClusters == 2      \* clusters per document
MaxMentions == 2      \* mentions per cluster
MaxSents    == 2      \* sentences per document (_build_text)
MaxSentLen  == 2      \* tokens per sentence (_build_text)
MaxPars     == 2      \* paragraph markers per document (_build_text)
MaxKeyLen   == 3      \* characters of an enumerated doc_key
MaxLines    == 2      \* lines of the input file

(***************************************************************************)
(* Strings and lists.                                                      *)
(***************************************************************************)
Min(a, b) == IF a <= b THEN a ELSE b

\* seq[a:b] for 0 <= a, 0 <= b: out-of-range bounds are clipped, never an error
Slice(seq, a, b) == SubSeq(seq, a + 1, Min(b, Len(seq)))

RECURSIVE Flatten(_)
\* [tok for sent in sentences for tok in sent]
Flatten(ss) == IF ss = <<>> THEN <<>> ELSE Head(ss) \o Flatten(Tail(ss))

RECURSIVE Join(_)
\* " ".join(strs)
Join(strs) ==
    IF strs = <<>> THEN <<>>
    ELSE IF Len(strs) = 1 THEN strs[1]
    ELSE strs[1] \o <<" ">> \o Join(Tail(strs))

Digit(d) == <<"0", "1", "2", "3", "4", "5", "6", "7", "8", "9">>[d + 1]

RECURSIVE Str(_)
\* str(n) for n >= 0
Str(n) == IF n < 10 THEN <<Digit(n)>> ELSE Str(n \div 10) \o <<Digit(n % 10)>>

(***************************************************************************)
(* _get_refnames                                                           *)
(***************************************************************************)
Has(d, key) == key \in DOMAIN d

\* the text of mention mn = [start, end]: tokens[start:end+1] joined
MentionText(tokens, mn) == Join(Slice(tokens, mn[1], mn[2] + 1))

\* the sort key of get_longest: len(x) of the mention x, a [start, end] list
LongestKey(x) == Len(x)

RECURSIVE InsertDesc(_, _)
\* x put into the list sorted (descending by LongestKey) after every element
\* whose key is not smaller: elements of equal key keep their order
InsertDesc(sorted, x) ==
    IF sorted = <<>> THEN <<x>>
    ELSE IF LongestKey(Head(sorted)) >= LongestKey(x)
         THEN <<Head(sorted)>> \o InsertDesc(Tail(sorted), x)
         ELSE <<x>> \o sorted

RECURSIVE SortedDesc(_)
\* sorted(cluster, key=lambda x: len(x), reverse=True): stable
SortedDesc(seq) ==
    IF seq = <<>> THEN <<>>
    ELSE InsertDesc(SortedDesc(SubSeq(seq, 1, Len(seq) - 1)), seq[Len(seq)])

\* get_longest(cluster), joined
get_longest(tokens, cluster) ==
    MentionText(tokens, SortedDesc(cluster)[1])

\* the candidate name of one cluster
Candidate(tokens, cluster, isFirst) ==
    IF isFirst THEN MentionText(tokens, cluster[1])
    ELSE get_longest(tokens, cluster)

RECURSIVE Suffixed(_, _, _)
\* the while loop of the deduplication: its condition is "name not in used"
Suffixed(name, counter, usedNames) ==
    IF name \notin usedNames
    THEN Suffixed(name \o Str(counter), counter + 1, usedNames)
    ELSE name

\* the name stored for a cluster whose current name is name
Deduplicated(name, usedNames) ==
    IF name \in usedNames THEN Suffixed(name, 1, usedNames) ELSE name

\* lines 94-107: the dict of candidate names, one entry per cluster object
GetRefnamesCandidates ==
    /\ pc = "get_refnames"
    /\ Has(doc, "sentences") /\ Has(doc, "clusters")
    /\ \A i \in 1..Len(doc.clusters) : doc.clusters[i] # <<>>
    /\ clusters' = [i \in 1..Len(doc.clusters) |->
                      Candidate(Flatten(doc.sentences), doc.clusters[i], first)]
    /\ used' = {}
    /\ ci' = 1
    /\ pc' = "dedup"
    /\ UNCHANGED <<mainVars, doc, first, exc, names, textVars, ursVars, fileVars>>

\* cluster[0] of an empty cluster raises IndexError
GetRefnamesIndexError ==
    /\ pc = "get_refnames"
    /\ Has(doc, "sentences") /\ Has(doc, "clusters")
    /\ \E i \in 1..Len(doc.clusters) : doc.clusters[i] = <<>>
    /\ pc' = "raised"
    /\ exc' = "IndexError"
    /\ UNCHANGED <<mainVars, doc, first, names, nameVars, textVars, ursVars, fileVars>>

\* doc['clusters'] of a document without clusters raises KeyError
GetRefnamesKeyError ==
    /\ pc = "get_refnames"
    /\ Has(doc, "sentences") /\ ~Has(doc, "clusters")
    /\ pc' = "raised"
    /\ exc' = "KeyError"
    /\ UNCHANGED <<mainVars, doc, first, names, nameVars, textVars, ursVars, fileVars>>

\* lines 109-116: one iteration of the loop over clusters.items()
DedupStep ==
    /\ pc = "dedup"
    /\ ci <= Len(clusters)
    /\ LET name == Deduplicated(clusters[ci], used)
       IN  /\ clusters' = IF clusters[ci] \in used
                          THEN [clusters EXCEPT ![ci] = name]
                          ELSE clusters
           /\ used' = used \cup {name}
    /\ ci' = ci + 1
    /\ UNCHANGED <<mainVars, doc, first, pc, exc, names, textVars, ursVars, fileVars>>

\* line 117, and line 151 binding the result to names
GetRefnamesReturn ==
    /\ pc = "dedup"
    /\ ci > Len(clusters)
    /\ names' = clusters
    /\ pc' = "urs_init"
    /\ UNCHANGED <<mainVars, doc, first, exc, nameVars, textVars, ursVars, fileVars>>

GetRefnames ==
    \/ GetRefnamesCandidates
    \/ GetRefnamesIndexError
    \/ GetRefnamesKeyError
    \/ DedupStep
    \/ GetRefnamesReturn

(***************************************************************************)
(* _build_text                                                             *)
(***************************************************************************)
\* xml.sax.saxutils.escape of one character
EscapeChar(ch) ==
    CASE ch = "&" -> <<"&", "a", "m", "p", ";">>
      [] ch = "<" -> <<"&", "l", "t", ";">>
      [] ch = ">" -> <<"&", "g", "t", ";">>
      [] OTHER    -> <<ch>>

RECURSIVE escape(_)
\* xml.sax.saxutils.escape(data)
escape(data) ==
    IF data = <<>> THEN <<>> ELSE EscapeChar(Head(data)) \o escape(Tail(data))

\* line 122: {p[1] for p in doc['paragraphs']}
Pars(d) == {d.paragraphs[i][2] : i \in 1..Len(d.paragraphs)}

\* a variant of ParBreak that lets the last paragraph be closed as well
ParBreakAlsoLast(d, tok, par) ==
    /\ Has(d, "paragraphs")
    /\ (tok - 1) \in Pars(d)
    /\ par < Cardinality(Pars(d))

\* line 139: the test made after a sentence is closed
ParBreak(d, tok, par) ==
    /\ Has(d, "paragraphs")
    /\ (tok - 1) \in Pars(d)
    /\ par < Cardinality(Pars(d)) - 1

\* a variant of TokenId that numbers the tokens of each sentence from 0
TokenIdInSentence(tok, tl) == tl

\* lines 131 and 137: the number a token is given, tok the running index and
\* tl its position in the sentence
TokenId(tok, tl) == tok

\* lines 131-136: the <w> element of a token
WElement(d, sent, tl, tok) ==
    [tag  |-> "w",
     id   |-> TokenId(tok, tl),
     n    |-> TokenId(tok, tl),
     form |-> escape(d.sentences[sent + 1][tl + 1]),
     ana  |-> IF Has(d, "pos")
              THEN <<escape(d.pos[sent + 1][tl + 1])>>
              ELSE <<>>]

\* lines 122-126
BuildTextEnter ==
    /\ pc = "build_text"
    /\ Has(doc, "sentences")
    /\ t' = 0
    /\ p' = 0
    /\ s' = 0
    /\ t_local' = 0
    /\ res' = <<[tag |-> "text"], [tag |-> "p"]>>
    /\ pc' = "text_sentence"
    /\ UNCHANGED <<mainVars, doc, first, exc, names, nameVars, ursVars, fileVars>>

\* line 128: doc['sentences'] of a document without sentences raises KeyError
BuildTextKeyError ==
    /\ pc = "build_text"
    /\ ~Has(doc, "sentences")
    /\ pc' = "raised"
    /\ exc' = "KeyError"
    /\ UNCHANGED <<mainVars, doc, first, names, nameVars, textVars, ursVars, fileVars>>

\* lines 128-129
SentenceOpen ==
    /\ pc = "text_sentence"
    /\ s < Len(doc.sentences)
    /\ res' = Append(res, [tag |-> "s", n |-> s])
    /\ t_local' = 0
    /\ pc' = "text_token"
    /\ UNCHANGED <<mainVars, doc, first, exc, names, nameVars, t, p, s, ursVars, fileVars>>

\* lines 130-137
EmitToken ==
    /\ pc = "text_token"
    /\ t_local < Len(doc.sentences[s + 1])
    /\ res' = Append(res, WElement(doc, s, t_local, t))
    /\ t' = t + 1
    /\ t_local' = t_local + 1
    /\ UNCHANGED <<mainVars, doc, first, pc, exc, names, nameVars, p, s, ursVars, fileVars>>

\* lines 138-141
SentenceClose ==
    /\ pc = "text_token"
    /\ t_local = Len(doc.sentences[s + 1])
    /\ IF ParBreak(doc, t, p)
       THEN /\ res' = res \o <<[tag |-> "/s"], [tag |-> "/p"], [tag |-> "p"]>>
            /\ p' = p + 1
       ELSE /\ res' = Append(res, [tag |-> "/s"])
            /\ p' = p
    /\ s' = s + 1
    /\ pc' = "text_sentence"
    /\ UNCHANGED <<mainVars, doc, first, exc, names, nameVars, t, t_local, ursVars, fileVars>>

\* lines 142-145
BuildTextReturn ==
    /\ pc = "text_sentence"
    /\ s = Len(doc.sentences)
    /\ res' = res \o <<[tag |-> "/p"], [tag |-> "/text"]>>
    /\ pc' = "build_urs"
    /\ UNCHANGED <<mainVars, doc, first, exc, names, nameVars, t, p, s, t_local, ursVars, fileVars>>

BuildText ==
    \/ BuildTextEnter
    \/ BuildTextKeyError
    \/ SentenceOpen
    \/ EmitToken
    \/ SentenceClose
    \/ BuildTextReturn

(***************************************************************************)
(* _build_urs                                                              *)
(***************************************************************************)
\* lines 161-162 and 178-179: the second literal of the REF string is not an
\* f-string, so its text is emitted as it is written
RefString(nm) ==
    <<"{", "e", "s", "c", "a", "p", "e", "(", "n", "a", "m", "e", "s", "[",
      "i", "d", "(", "c", "l", "u", "s", "t", "e", "r", ")", "]", ")", "}">>

\* a variant of Target that forgets the offset
TargetWithoutOffset(off, n) == [i \in 1..n |-> i - 1]

\* line 173: the mention numbers of a cluster of n mentions
Target(off, n) == [i \in 1..n |-> (i - 1) + off]

\* a variant of NbMaillons that counts the indices of the cluster's mentions
NbMaillonsOfIndices(cluster) == Str(Len(Flatten(cluster)))

\* line 180: the NB MAILLONS string of a cluster
NbMaillons(cluster) == Str(Len(cluster))

\* line 151: the call of _get_refnames
BuildUrsEnter ==
    /\ pc = "build_urs"
    /\ pc' = "get_refnames"
    /\ UNCHANGED <<mainVars, doc, first, exc, names, nameVars, textVars, ursVars, fileVars>>

\* lines 153-155
BuildUrsInit ==
    /\ pc = "urs_init"
    /\ div' = <<[tag |-> "div", type |-> "unit-fs"]>>
    /\ ures' = <<[tag |-> "annotationGrp", type |-> "Unit", subtype |-> "MENTION"]>>
    /\ m' = 0
    /\ c' = 0
    /\ k' = 0
    /\ offset' = 0
    /\ pc' = "urs_spans"
    /\ UNCHANGED <<mainVars, doc, first, exc, names, nameVars, textVars, fileVars>>

\* lines 157-164: one mention of cluster c
EmitSpan ==
    /\ pc = "urs_spans"
    /\ c < Len(doc.clusters)
    /\ k < Len(doc.clusters[c + 1])
    /\ LET mention == doc.clusters[c + 1][k + 1]
       IN  /\ ures' = Append(ures, [tag  |-> "span",
                                    id   |-> m,
                                    from |-> mention[1],
                                    to   |-> mention[2],
                                    ana  |-> m])
           /\ div' = Append(div, [tag |-> "fs",
                                  id  |-> <<"u-MENTION", m>>,
                                  REF |-> RefString(names[c + 1])])
    /\ m' = m + 1
    /\ k' = k + 1
    /\ UNCHANGED <<mainVars, doc, first, pc, exc, names, nameVars, textVars, c, offset, fileVars>>

\* line 156: the next cluster
NextCluster ==
    /\ pc = "urs_spans"
    /\ c < Len(doc.clusters)
    /\ k = Len(doc.clusters[c + 1])
    /\ c' = c + 1
    /\ k' = 0
    /\ UNCHANGED <<mainVars, doc, first, pc, exc, names, nameVars, textVars, m, offset, ures, div, fileVars>>

\* lines 165-171
SpansDone ==
    /\ pc = "urs_spans"
    /\ c = Len(doc.clusters)
    /\ ures' = ures \o <<[tag |-> "/annotationGrp"],
                         [tag |-> "annotationGrp", type |-> "Schema", subtype |-> "CHAINE"]>>
    /\ div' = div \o <<[tag |-> "/div"],
                       [tag |-> "div", type |-> "relation-fs"],
                       [tag |-> "/div"],
                       [tag |-> "div", type |-> "schema-fs"]>>
    /\ offset' = 0
    /\ c' = 0
    /\ pc' = "urs_links"
    /\ UNCHANGED <<mainVars, doc, first, exc, names, nameVars, textVars, m, k, fileVars>>

\* lines 172-181: the chain of cluster c
EmitLink ==
    /\ pc = "urs_links"
    /\ c < Len(doc.clusters)
    /\ LET cluster == doc.clusters[c + 1]
       IN  /\ ures' = Append(ures, [tag    |-> "link",
                                    id     |-> c,
                                    target |-> Target(offset, Len(cluster)),
                                    ana    |-> c])
           /\ offset' = offset + Len(cluster)
           /\ div' = Append(div, [tag |-> "fs",
                                  id  |-> <<"s-CHAINE", c>>,
                                  REF |-> RefString(names[c + 1]),
                                  NB  |-> NbMaillons(cluster)])
    /\ c' = c + 1
    /\ UNCHANGED <<mainVars, doc, first, pc, exc, names, nameVars, textVars, m, k, fileVars>>

\* lines 182-188
BuildUrsReturn ==
    /\ pc = "urs_links"
    /\ c = Len(doc.clusters)
    /\ ures' = Append(ures, [tag |-> "/annotationGrp"])
    /\ div' = Append(div, [tag |-> "/div"])
    /\ pc' = "get_teis"
    /\ UNCHANGED <<mainVars, doc, first, exc, names, nameVars, textVars, m, c, k, offset, fileVars>>

BuildUrs ==
    \/ BuildUrsEnter
    \/ GetRefnames
    \/ BuildUrsInit
    \/ EmitSpan
    \/ NextCluster
    \/ SpansDone
    \/ EmitLink
    \/ BuildUrsReturn

(***************************************************************************)
(* _get_teis and jsonlines2tei                                             *)
(***************************************************************************)
Lower == {"a", "b", "c", "d", "e", "f", "g", "h", "i", "j", "k", "l", "m",
          "n", "o", "p", "q", "r", "s", "t", "u", "v", "w", "x", "y", "z"}
Upper == {"A", "B", "C", "D", "E", "F", "G", "H", "I", "J", "K", "L", "M",
          "N", "O", "P", "Q", "R", "S", "T", "U", "V", "W", "X", "Y", "Z"}
Digits == {"0", "1", "2", "3", "4", "5", "6", "7", "8", "9"}

\* the characters the class [^-a-zA-Z0-9_] does not match
Kept(ch) == ch \in Lower \cup Upper \cup Digits \cup {"-", "_"}

RECURSIVE SubDisallowed(_)
\* line 209: re.sub(r'[^-a-zA-Z0-9_]', '_', fn)
SubDisallowed(str) ==
    IF str = <<>> THEN <<>>
    ELSE <<IF Kept(Head(str)) THEN Head(str) ELSE "_">> \o SubDisallowed(Tail(str))

RECURSIVE SkipUnderscores(_)
\* the rest of str after the underscores it starts with
SkipUnderscores(str) ==
    IF str # <<>> /\ Head(str) = "_" THEN SkipUnderscores(Tail(str)) ELSE str

RECURSIVE SubUnderscores(_)
\* line 210: re.sub(r'_+', '_', fn): each leftmost longest run becomes one "_"
SubUnderscores(str) ==
    IF str = <<>> THEN <<>>
    ELSE IF Head(str) = "_"
         THEN <<"_">> \o SubUnderscores(SkipUnderscores(str))
         ELSE <<Head(str)>> \o SubUnderscores(Tail(str))

\* a variant of Sanitized that does not collapse the runs of "_"
SanitizedWithRuns(key) == SubDisallowed(key)

\* lines 208-210
Sanitized(key) == SubUnderscores(SubDisallowed(key))

\* line 211: os.path.join(xml_dir, f"{fn}.xml"), as (directory, file name)
XmlPath(dir, stem) == <<dir, stem \o <<".", "x", "m", "l">>>>

\* line 212: os.path.join(urs_dir, f"{fn}-urs.xml")
UrsPath(dir, stem) == <<dir, stem \o <<"-", "u", "r", "s", ".", "x", "m", "l">>>>

\* a file of the file system written (created or replaced)
Written(files, path, content) == (path :> content) @@ files

\* lines 191-200 (called at 204-207)
GetTeis ==
    /\ pc = "get_teis"
    /\ Has(doc, "doc_key")
    /\ xml_text' = [root |-> "TEI", title |-> doc.doc_key, body |-> <<res>>]
    /\ xml_urs' = [root |-> "tei:TEI", title |-> doc.doc_key,
                   body |-> <<<<[tag |-> "text"], [tag |-> "/text"]>>, ures, div>>]
    /\ pc' = "sanitize"
    /\ UNCHANGED <<mainVars, doc, first, exc, names, nameVars, textVars, ursVars, fn>>

\* line 192: doc["doc_key"] of a document without doc_key raises KeyError
GetTeisKeyError ==
    /\ pc = "get_teis"
    /\ ~Has(doc, "doc_key")
    /\ pc' = "raised"
    /\ exc' = "KeyError"
    /\ UNCHANGED <<mainVars, doc, first, names, nameVars, textVars, ursVars, fileVars>>

\* a variant of Sanitize that keeps the stem of the document before
SanitizeOnce ==
    /\ pc = "sanitize"
    /\ fn' = IF fn = <<>> THEN Sanitized(doc.doc_key) ELSE fn
    /\ pc' = "open_xml"
    /\ UNCHANGED <<mainVars, doc, first, exc, names, nameVars, textVars, ursVars, xml_text, xml_urs>>

\* lines 208-210
Sanitize ==
    /\ pc = "sanitize"
    /\ fn' = Sanitized(doc.doc_key)
    /\ pc' = "open_xml"
    /\ UNCHANGED <<mainVars, doc, first, exc, names, nameVars, textVars, ursVars, xml_text, xml_urs>>

\* line 211: open(..., 'w') creates the file or truncates it
OpenXml ==
    /\ pc = "open_xml"
    /\ fs' = Written(fs, XmlPath(xml_dir, fn), <<>>)
    /\ pc' = "write_xml"
    /\ UNCHANGED <<lines, cur, xml_dir, urs_dir, snapshot, doc, first, exc, names,
                   nameVars, textVars, ursVars, fileVars>>

\* line 211: .write(xml_text)
WriteXml ==
    /\ pc = "write_xml"
    /\ fs' = Written(fs, XmlPath(xml_dir, fn), xml_text)
    /\ pc' = "open_urs"
    /\ UNCHANGED <<lines, cur, xml_dir, urs_dir, snapshot, doc, first, exc, names,
                   nameVars, textVars, ursVars, fileVars>>

\* line 212: open(..., 'w')
OpenUrs ==
    /\ pc = "open_urs"
    /\ fs' = Written(fs, UrsPath(urs_dir, fn), <<>>)
    /\ pc' = "write_urs"
    /\ UNCHANGED <<lines, cur, xml_dir, urs_dir, snapshot, doc, first, exc, names,
                   nameVars, textVars, ursVars, fileVars>>

\* line 212: .write(xml_urs), and the return to the loop of main
WriteUrs ==
    /\ pc = "write_urs"
    /\ fs' = Written(fs, UrsPath(urs_dir, fn), xml_urs)
    /\ cur' = cur + 1
    /\ pc' = "main"
    /\ UNCHANGED <<lines, xml_dir, urs_dir, snapshot, doc, first, exc, names,
                   nameVars, textVars, ursVars, fileVars>>

\* lines 211-212: open fails (directory missing or not writable), or write
\* fails after the file was opened
OutputError ==
    /\ pc \in {"open_xml", "write_xml", "open_urs", "write_urs"}
    /\ pc' = "raised"
    /\ exc' = "OSError"
    /\ UNCHANGED <<mainVars, doc, first, names, nameVars, textVars, ursVars, fileVars>>

Jsonlines2tei ==
    \/ BuildText
    \/ BuildUrs
    \/ GetTeis
    \/ GetTeisKeyError
    \/ Sanitize
    \/ OpenXml
    \/ WriteXml
    \/ OpenUrs
    \/ WriteUrs
    \/ OutputError

(***************************************************************************)
(* main                                                                    *)
(***************************************************************************)
\* line 240: the next line of the input file
ReadLine ==
    /\ pc = "main"
    /\ cur <= Len(lines)
    /\ snapshot' = fs
    /\ pc' = "loads"
    /\ UNCHANGED <<lines, cur, xml_dir, urs_dir, fs, doc, first, exc, names,
                   nameVars, textVars, ursVars, fileVars>>

\* line 241: json.loads(line), and the call of jsonlines2tei
Loads ==
    /\ pc = "loads"
    /\ lines[cur].json
    /\ doc' = lines[cur].doc
    /\ pc' = "build_text"
    /\ UNCHANGED <<mainVars, first, exc, names, nameVars, textVars, ursVars, fileVars>>

\* line 241: json.loads of a line that is not JSON raises JSONDecodeError
LoadsError ==
    /\ pc = "loads"
    /\ ~lines[cur].json
    /\ pc' = "raised"
    /\ exc' = "JSONDecodeError"
    /\ UNCHANGED <<mainVars, doc, first, names, nameVars, textVars, ursVars, fileVars>>

\* line 240: the input file is exhausted
MainExit ==
    /\ pc = "main"
    /\ cur > Len(lines)
    /\ pc' = "exit"
    /\ UNCHANGED <<mainVars, doc, first, exc, names, nameVars, textVars, ursVars, fileVars>>

Main ==
    \/ ReadLine
    \/ Loads
    \/ LoadsError
    \/ MainExit
    \/ Jsonlines2tei

(***************************************************************************)
(* Documents the functions are applied to.                                 *)
(***************************************************************************)
SeqsUpTo(S, n) == UNION {[1..i -> S] : i \in 0..n}

\* the mentions of a document of n tokens: start <= end, both tokens of it
Mentions(n) == {mn \in (0..(n - 1)) \X (0..(n - 1)) : mn[1] <= mn[2]}

ClusterLists(n) == SeqsUpTo(SeqsUpTo(Mentions(n), MaxMentions), MaxClusters)

KeyA == <<"a">>
TokA == <<"A">>
TokB == <<"B">>

NoFs == <<>>

NoLines ==
    /\ lines = <<>> /\ cur = 1 /\ xml_dir = "xml" /\ urs_dir = "urs"
    /\ fs = NoFs /\ snapshot = NoFs

NoNames == clusters = <<>> /\ used = {} /\ ci = 1 /\ names = <<>>
NoText  == t = 0 /\ p = 0 /\ s = 0 /\ t_local = 0 /\ res = <<>>
NoUrs   == m = 0 /\ c = 0 /\ k = 0 /\ offset = 0 /\ ures = <<>> /\ div = <<>>
NoFiles == xml_text = <<>> /\ xml_urs = <<>> /\ fn = <<>>

(***************************************************************************)
(* _get_refnames applied to a document.                                    *)
(***************************************************************************)
\* token lists in which two mentions can have the same text (the token
\* "A B" reads as the tokens "A", "B") and a suffixed name can be taken
NameSentences ==
    { << <<TokA, TokB>>, <<TokA>> >>,
      << <<TokA, TokB, <<"A", " ", "B">>>> >>,
      << <<TokA>>, <<>>, <<TokA, <<"A", "1">>>> >> }

NameDocs ==
    UNION { { [doc_key |-> KeyA, sentences |-> ss, clusters |-> cl] :
                cl \in ClusterLists(Len(Flatten(ss))) } : ss \in NameSentences }
    \cup { [doc_key |-> KeyA, sentences |-> ss] : ss \in NameSentences }

InitNames ==
    /\ NoLines /\ NoNames /\ NoText /\ NoUrs /\ NoFiles
    /\ doc \in NameDocs
    /\ first \in BOOLEAN
    /\ pc = "get_refnames"
    /\ exc = "none"

SpecNames == InitNames /\ [][GetRefnames]_vars

(***************************************************************************)
(* _build_text applied to a document.                                      *)
(***************************************************************************)
\* a token that names its place: sentence sent, position tl
PlaceToken(sent, tl) == Str(sent) \o <<".">> \o Str(tl)

\* sentences of the given lengths, every token naming its place
PlaceSentences(lens) ==
    [i \in 1..Len(lens) |-> [j \in 1..lens[i] |-> PlaceToken(i - 1, j - 1)]]

\* sentences of the given lengths, every token markup to be escaped
MarkupSentences(lens) ==
    [i \in 1..Len(lens) |-> [j \in 1..lens[i] |-> <<"<", "&", ">">>]]

\* a part-of-speech tag for every token
PosOf(ss) == [i \in 1..Len(ss) |-> [j \in 1..Len(ss[i]) |-> <<"N", "&">>]]

RECURSIVE Ascending(_)
\* the elements of a set of numbers in ascending order
Ascending(S) ==
    IF S = {} THEN <<>>
    ELSE LET lo == CHOOSE x \in S : \A y \in S : x <= y
         IN  <<lo>> \o Ascending(S \ {lo})

\* the paragraph markers [start, end] whose ends are the numbers of ends
ParagraphsOf(ends) ==
    LET asc == Ascending(ends)
    IN  [i \in 1..Len(asc) |-> <<IF i = 1 THEN 0 ELSE asc[i - 1] + 1, asc[i]>>]

ParagraphLists(n) ==
    {ParagraphsOf(ends) : ends \in {e \in SUBSET (0..(n - 1)) : Cardinality(e) <= MaxPars}}

TextShapes == SeqsUpTo(0..MaxSentLen, MaxSents)

TextBodies ==
    { [doc_key |-> KeyA, sentences |-> PlaceSentences(lens), clusters |-> <<>>] :
        lens \in TextShapes } \cup
    { [doc_key |-> KeyA, sentences |-> MarkupSentences(lens), clusters |-> <<>>,
       pos |-> PosOf(MarkupSentences(lens))] : lens \in TextShapes }

\* documents with an empty sentence right after a paragraph boundary
EmptySentenceDocs ==
    { [doc_key |-> KeyA, sentences |-> PlaceSentences(<<2, 0, 1>>), clusters |-> <<>>,
       paragraphs |-> ParagraphsOf({0, 1, 2})],
      [doc_key |-> KeyA, sentences |-> PlaceSentences(<<2, 1, 0, 1>>), clusters |-> <<>>,
       paragraphs |-> ParagraphsOf({0, 2, 3})] }

TextDocs ==
    TextBodies \cup EmptySentenceDocs \cup
    UNION { { d @@ [paragraphs |-> ps] :
                ps \in ParagraphLists(Len(Flatten(d.sentences))) } : d \in TextBodies }
    \cup { [doc_key |-> KeyA, clusters |-> <<>>] }

InitText ==
    /\ NoLines /\ NoNames /\ NoText /\ NoUrs /\ NoFiles
    /\ doc \in TextDocs
    /\ first = TRUE
    /\ pc = "build_text"
    /\ exc = "none"

SpecText == InitText /\ [][BuildText]_vars

(***************************************************************************)
(* _build_urs applied to a document.                                       *)
(***************************************************************************)
UrsSentences == << <<TokA, TokB>> >>

UrsMentions == {<<0, 0>>, <<0, 1>>}

UrsDocs ==
    { [doc_key |-> KeyA, sentences |-> UrsSentences, clusters |-> cl] :
        cl \in SeqsUpTo(SeqsUpTo(UrsMentions, MaxMentions), MaxClusters) }
    \cup { [doc_key |-> KeyA, sentences |-> UrsSentences] }

InitUrs ==
    /\ NoLines /\ NoNames /\ NoText /\ NoUrs /\ NoFiles
    /\ doc \in UrsDocs
    /\ first \in BOOLEAN
    /\ pc = "build_urs"
    /\ exc = "none"

SpecUrs == InitUrs /\ [][BuildUrs]_vars

(***************************************************************************)
(* jsonlines2tei applied to a document.                                    *)
(***************************************************************************)
KeyChars == {"a", "Z", "0", "-", "_", "/", " "}

ExampleKey == <<"n", "w", "/", "d", "o", "c", "n", "a", "m", "e", ":", "0", "1">>

DocKeys == SeqsUpTo(KeyChars, MaxKeyLen) \cup {ExampleKey}

OneSentence == << <<TokA>> >>
OneCluster == << << <<0, 0>> >> >>

KeyDocs ==
    { [doc_key |-> key, sentences |-> OneSentence, clusters |-> OneCluster] :
        key \in DocKeys } \cup
    { [doc_key |-> KeyA, clusters |-> OneCluster],
      [doc_key |-> KeyA, sentences |-> OneSentence],
      [doc_key |-> KeyA, sentences |-> OneSentence, clusters |-> <<<<>>>>],
      [sentences |-> OneSentence, clusters |-> OneCluster] }

\* the output directories: one directory for both kinds of files, or two
Dirs == {<<"out", "out">>, <<"xml", "urs">>}

InitDoc ==
    /\ lines = <<>> /\ cur = 1 /\ fs = NoFs /\ snapshot = NoFs
    /\ \E d \in Dirs : xml_dir = d[1] /\ urs_dir = d[2]
    /\ NoNames /\ NoText /\ NoUrs /\ NoFiles
    /\ doc \in KeyDocs
    /\ first \in BOOLEAN
    /\ pc = "build_text"
    /\ exc = "none"

SpecDoc == InitDoc /\ [][Jsonlines2tei]_vars

(***************************************************************************)
(* main applied to an input file.                                          *)
(***************************************************************************)
\* documents whose file stems meet: "a" twice with different texts, "a/" and
\* "a:" (both "a_"), and "a-urs", whose text file is the annotation file of
\* "a" when both kinds of files go to one directory
LineDocs ==
    { [doc_key |-> KeyA, sentences |-> OneSentence, clusters |-> OneCluster],
      [doc_key |-> KeyA, sentences |-> << <<TokB>> >>, clusters |-> OneCluster],
      [doc_key |-> <<"a", "/">>, sentences |-> OneSentence, clusters |-> OneCluster],
      [doc_key |-> <<"a", ":">>, sentences |-> << <<TokB>> >>, clusters |-> <<>>],
      [doc_key |-> <<"a", "-", "u", "r", "s">>, sentences |-> OneSentence,
       clusters |-> OneCluster],
      [doc_key |-> <<"b">>, sentences |-> OneSentence, clusters |-> OneCluster],
      [doc_key |-> KeyA, clusters |-> OneCluster],
      [doc_key |-> KeyA, sentences |-> OneSentence],
      [doc_key |-> KeyA, sentences |-> OneSentence, clusters |-> <<<<>>>>],
      [sentences |-> OneSentence, clusters |-> OneCluster] }

Lines == {[json |-> TRUE, doc |-> d] : d \in LineDocs} \cup {[json |-> FALSE]}

Init ==
    /\ lines \in SeqsUpTo(Lines, MaxLines)
    /\ cur = 1
    /\ \E d \in Dirs : xml_dir = d[1] /\ urs_dir = d[2]
    /\ fs = NoFs /\ snapshot = NoFs
    /\ NoNames /\ NoText /\ NoUrs /\ NoFiles
    /\ doc = <<>>
    /\ first \in BOOLEAN
    /\ pc = "main"
    /\ exc = "none"

Spec == Init /\ [][Main]_vars

(***************************************************************************)
(* Properties of _get_refnames (SpecNames).                                *)
(***************************************************************************)
Range(f) == {f[i] : i \in DOMAIN f}

\* _get_refnames has returned
Named == pc = "urs_init"

\* C1: name uniqueness: the mapping _get_refnames returns holds pairwise
\* distinct names, as many as the document has clusters, also when clusters
\* have the same candidate name.
NameUniqueness ==
    Named => Cardinality(Range(names)) = Len(doc.clusters)

\* the number of tokens a mention spans
Span(mn) == mn[2] - mn[1] + 1

\* the mention of greatest span, the first in cluster order among the greatest
LongestMention(cluster) ==
    LET i == CHOOSE i \in 1..Len(cluster) :
                 /\ \A j \in 1..Len(cluster) : Span(cluster[j]) <= Span(cluster[i])
                 /\ \A j \in 1..(i - 1) : Span(cluster[j]) < Span(cluster[i])
    IN  cluster[i]

\* the candidate names have been computed and none is deduplicated yet
CandidatesReady == pc = "dedup" /\ ci = 1

\* C3: in LONGEST mode the candidate name of every cluster is the text of
\* its mention of greatest token length end - start + 1, the first in cluster
\* order among those of greatest length.
LongestCandidate ==
    (CandidatesReady /\ ~first) =>
        \A i \in 1..Len(doc.clusters) :
            clusters[i] = MentionText(Flatten(doc.sentences),
                                      LongestMention(doc.clusters[i]))

\* the names stored for the clusters before cluster i
Earlier(i) == {names[j] : j \in 1..(i - 1)}

\* C4: clusters are deduplicated in their order: a cluster whose candidate
\* name is already used gets the candidate with an integer suffix, starting
\* at 1, that makes it unused; two clusters named "A" give "A" and "A1".
DedupAppendsSuffix ==
    Named =>
        \A i \in 1..Len(doc.clusters) :
            LET cand == Candidate(Flatten(doc.sentences), doc.clusters[i], first)
            IN  cand \in Earlier(i) =>
                    /\ names[i] \notin Earlier(i)
                    /\ (cand \o <<"1">>) \notin Earlier(i) => names[i] = cand \o <<"1">>

(***************************************************************************)
(* Properties of _build_urs (SpecUrs).                                     *)
(***************************************************************************)
\* the pieces of seq whose tag is tg, in order
Tagged(seq, tg) == SelectSeq(seq, LAMBDA x : x.tag = tg)

Spans == Tagged(ures, "span")
Links == Tagged(ures, "link")
FeatureStructures == Tagged(div, "fs")

\* the number of mentions of the clusters before the 0-based cluster cl
MentionsBefore(cl) == Len(Flatten(SubSeq(doc.clusters, 1, cl)))

\* the 0-based cluster of the 0-based mention number mention
ClusterOf(mention) ==
    CHOOSE cl \in 0..(Len(doc.clusters) - 1) :
        /\ MentionsBefore(cl) <= mention
        /\ mention < MentionsBefore(cl + 1)

\* C2: the feature structure of every mention carries as REF the escaped
\* referent name _get_refnames gave the mention's cluster, and the feature
\* structure of every chain the escaped referent name of its cluster.
RefCarriesName ==
    \A i \in 1..Len(FeatureStructures) :
        LET f == FeatureStructures[i]
        IN  /\ f.id[1] = "u-MENTION" => f.REF = escape(names[ClusterOf(f.id[2]) + 1])
            /\ f.id[1] = "s-CHAINE" => f.REF = escape(names[f.id[2] + 1])

\* a feature structure of a mention and one of a chain have been emitted
RefEmitted == pc = "get_teis" /\ Len(FeatureStructures) >= 2

\* _build_urs has ended: it returned or it raised
UrsEnded == pc \in {"get_teis", "raised"} /\ Has(doc, "clusters")

\* the spans emitted so far are numbered 0, 1, 2, ... in the order of emission
\* and link the tokens of the mentions in the order of clusters and mentions
SequentialSpans ==
    \A j \in 1..Len(Spans) :
        /\ Spans[j].id = j - 1
        /\ Spans[j].ana = j - 1
        /\ <<Spans[j].from, Spans[j].to>> = Flatten(doc.clusters)[j]

\* the link of the 0-based cluster cl is emitted and its target is the block
\* of the spans of the mentions of cl, in the order of the mentions
BlockOf(cl) ==
    /\ cl + 1 <= Len(Links)
    /\ LET link == Links[cl + 1]
           cluster == doc.clusters[cl + 1]
       IN  /\ link.id = cl
           /\ Len(link.target) = Len(cluster)
           /\ \A i \in 1..Len(cluster) :
                  /\ link.target[i] = MentionsBefore(cl) + i - 1
                  /\ link.target[i] + 1 <= Len(Spans)
                  /\ <<Spans[link.target[i] + 1].from,
                       Spans[link.target[i] + 1].to>> = cluster[i]

\* the targets of the links emitted so far, one after the other, are the
\* numbers 0, 1, 2, ...: the blocks neither overlap nor leave a gap
ContiguousBlocks ==
    LET all == Flatten([i \in 1..Len(Links) |-> Links[i].target])
    IN  \A j \in 1..Len(all) : all[j] = j - 1

\* C5 as stated: mention ids are global and sequential and the link of every
\* cluster targets exactly the contiguous block of its spans, for any cluster
\* sizes, empty clusters included.
ChainBlocksAnySizes ==
    /\ SequentialSpans
    /\ ContiguousBlocks
    /\ UrsEnded => \A cl \in 0..(Len(doc.clusters) - 1) : BlockOf(cl)

\* C5 amended: the same for every document _build_urs returns for, that is
\* when no cluster is empty; with an empty cluster _get_refnames raises
\* IndexError and no span and no link is emitted.
ChainBlocks ==
    /\ SequentialSpans
    /\ ContiguousBlocks
    /\ pc = "get_teis" =>
           /\ \A cl \in 0..(Len(doc.clusters) - 1) : BlockOf(cl)
           /\ Len(Spans) = Len(Flatten(doc.clusters))
    /\ (UrsEnded /\ \E i \in 1..Len(doc.clusters) : doc.clusters[i] = <<>>) =>
           /\ exc = "IndexError"
           /\ ures = <<>>

\* two clusters of two and one mentions: the second block starts at 2
ChainBlocksReached ==
    /\ pc = "get_teis"
    /\ Len(Links) = 2
    /\ Links[1].target = <<0, 1>>
    /\ Links[2].target = <<2>>

RECURSIVE Val(_)
\* the number a string of decimal digits writes
Val(str) ==
    IF str = <<>> THEN 0
    ELSE 10 * Val(SubSeq(str, 1, Len(str) - 1)) +
         (CHOOSE d \in 0..9 : Digit(d) = str[Len(str)])

RECURSIVE SumLen(_)
\* the sum of the lengths of the sequences of a sequence
SumLen(seqs) == IF seqs = <<>> THEN 0 ELSE Len(Head(seqs)) + SumLen(Tail(seqs))

\* C8: for every cluster the NB MAILLONS value of its chain is the number of
\* its mentions, and so is the number of references in the target of its
\* link; over all clusters they add up to the number of spans emitted.
MentionCount ==
    /\ \A i \in 1..Len(FeatureStructures) :
           LET f == FeatureStructures[i]
           IN  f.id[1] = "s-CHAINE" => Val(f.NB) = Len(doc.clusters[f.id[2] + 1])
    /\ \A i \in 1..Len(Links) :
           Len(Links[i].target) = Len(doc.clusters[Links[i].id + 1])
    /\ pc = "get_teis" =>
           /\ Len(Links) = Len(doc.clusters)
           /\ Len(FeatureStructures) = Len(Spans) + Len(doc.clusters)
           /\ SumLen([i \in 1..Len(Links) |-> Links[i].target]) = Len(Spans)

\* two chains of different lengths have been emitted
MentionCountReached ==
    /\ pc = "get_teis"
    /\ Len(Links) = 2
    /\ Len(Links[1].target) = 1
    /\ Len(Links[2].target) = 2
    /\ Len(Spans) = 3

(***************************************************************************)
(* Properties of _build_text (SpecText).                                   *)
(***************************************************************************)
\* the number of pieces tagged tg among the first n pieces of the text
CountTag(tg, n) == Len(Tagged(SubSeq(res, 1, n), tg))

\* the 0-based sentence the piece at position i lies in
SentenceAt(i) == CountTag("s", i) - 1

\* the position of the <s> piece that opens the sentence of the piece at i
OpenerOf(i) == CHOOSE j \in 1..i : res[j].tag = "s" /\ CountTag("s", j) = CountTag("s", i)

\* the 0-based place in its sentence of the <w> piece at position i
LocalAt(i) == CountTag("w", i - 1) - CountTag("w", OpenerOf(i))

\* the <w> pieces of the tokens numbered a to b, in order
Words(a, b) == SelectSeq(Tagged(res, "w"), LAMBDA w : a <= w.id /\ w.id <= b)

\* C6: the token at sentence s, local position t_local gets the number
\* T = (sum of the lengths of the sentences before s) + t_local as id and n,
\* empty sentences included, and T is the place of that token in the
\* flattened token list _get_refnames slices, so the tokens w_export_start
\* to w_export_end are the tokens of the text of the mention (start, end).
TokenIndexing ==
    /\ \A i \in 1..Len(res) :
           res[i].tag = "w" =>
               LET sent == SentenceAt(i)
                   tl == LocalAt(i)
                   T == SumLen(SubSeq(doc.sentences, 1, sent)) + tl
               IN  /\ res[i].id = T
                   /\ res[i].n = T
                   /\ res[i].form = escape(doc.sentences[sent + 1][tl + 1])
                   /\ res[i].form = escape(Flatten(doc.sentences)[T + 1])
    /\ pc = "build_urs" =>
           /\ CountTag("w", Len(res)) = Len(Flatten(doc.sentences))
           /\ \A mn \in Mentions(Len(Flatten(doc.sentences))) :
                  LET ws == Words(mn[1], mn[2])
                  IN  Join([i \in 1..Len(ws) |-> ws[i].form]) =
                          escape(MentionText(Flatten(doc.sentences), mn))

\* the text is built and a token follows an empty sentence and a token
TokenIndexingReached ==
    /\ pc = "build_urs"
    /\ \E i \in 1..Len(res) :
           /\ res[i].tag = "w"
           /\ res[i].id >= 1
           /\ SentenceAt(i) >= 1
           /\ LocalAt(i) >= 1
    /\ \E j \in 1..Len(doc.sentences) : doc.sentences[j] = <<>>

\* the pieces at i + 1 and i + 2 close a paragraph and open the next
BreakAfter(i) ==
    /\ i + 2 <= Len(res)
    /\ res[i + 1].tag = "/p"
    /\ res[i + 2].tag = "p"

\* C7 as stated: whenever the number of the token just emitted is a boundary
\* index and the current paragraph is not the last, the paragraph is closed
\* and a new one opened: no further token is emitted into the same paragraph.
BreakAfterEveryBoundaryToken ==
    Has(doc, "paragraphs") =>
        \A i \in 1..Len(res) : \A j \in (i + 1)..Len(res) :
            ( /\ res[i].tag = "w"
              /\ res[j].tag = "w"
              /\ res[i].id \in Pars(doc)
              /\ CountTag("/p", i) < Cardinality(Pars(doc)) - 1 )
            => CountTag("/p", j) > CountTag("/p", i)

\* C7 amended: the test is made once per sentence, after its </s>: a new
\* paragraph is opened there exactly when the number of the last token
\* emitted so far is a boundary index and fewer than (number of distinct
\* boundary indices) - 1 paragraphs were closed, also after an empty
\* sentence; a boundary index inside a sentence opens none.
BreakAfterSentence ==
    /\ \A i \in 1..Len(res) :
           res[i].tag = "/s" =>
               ( BreakAfter(i) <=>
                   /\ Has(doc, "paragraphs")
                   /\ (CountTag("w", i) - 1) \in Pars(doc)
                   /\ CountTag("/p", i) < Cardinality(Pars(doc)) - 1 )
    /\ \A i \in 3..Len(res) :
           res[i].tag = "p" => res[i - 1].tag = "/p" /\ res[i - 2].tag = "/s"
    /\ p = CountTag("p", Len(res)) - 1 \/ res = <<>>

\* a paragraph was opened after a sentence and another after the empty
\* sentence that follows, and a boundary index inside a sentence opened none
BreakAfterSentenceReached ==
    /\ pc = "build_urs"
    /\ \E i \in 2..Len(res) :
           /\ res[i].tag = "/s" /\ BreakAfter(i)
           /\ res[i - 1].tag = "s"
           /\ CountTag("/p", i) = 1
    /\ \E i \in 1..(Len(res) - 1) :
           /\ res[i].tag = "w"
           /\ res[i + 1].tag = "w"
           /\ res[i].id \in Pars(doc)
           /\ CountTag("/p", i) < Cardinality(Pars(doc)) - 1

(***************************************************************************)
(* Properties of main (Spec) and of jsonlines2tei (SpecDoc).               *)
(***************************************************************************)
\* the paths jsonlines2tei writes for a document with the key key
PathsOf(key) ==
    { <<xml_dir, Sanitized(key) \o <<".", "x", "m", "l">>>>,
      <<urs_dir, Sanitized(key) \o <<"-", "u", "r", "s", ".", "x", "m", "l">>>> }

\* the files written for the documents completed before the current line
DonePaths == UNION {PathsOf(lines[i].doc.doc_key) : i \in 1..(cur - 1)}

\* the paths of the document of the current line
CurPaths ==
    IF lines[cur].json /\ Has(lines[cur].doc, "doc_key")
    THEN PathsOf(lines[cur].doc.doc_key)
    ELSE {}

\* the run failed on a document that follows completed ones
FailedLater == pc = "raised" /\ cur >= 2

\* C9 as stated: when a later document fails, the files written for the
\* documents completed before it are as they were when it was begun, for
\* any doc_key values.
CompletedFilesKept ==
    FailedLater =>
        \A path \in DonePaths : path \in DOMAIN fs /\ fs[path] = snapshot[path]

\* C9 amended: a malformed line, a missing field or an empty cluster fails
\* before any file is opened and leaves every file unchanged; an error
\* opening or writing an output file leaves unchanged every earlier file but
\* those at the failing document's own two paths, which an earlier document
\* of the same file stem (in the same directory) had written.
CompletedFilesKeptElsewhere ==
    FailedLater =>
        /\ DonePaths \subseteq DOMAIN fs
        /\ \A path \in DonePaths \ CurPaths : fs[path] = snapshot[path]
        /\ exc # "OSError" => fs = snapshot
        /\ DOMAIN fs \subseteq DonePaths \cup CurPaths

\* the second document failed writing after it replaced a file of its own,
\* and the first document's files lie elsewhere
CompletedFilesKeptReached ==
    /\ FailedLater
    /\ exc = "OSError"
    /\ fs # snapshot
    /\ DonePaths \cap CurPaths = {}
    /\ DonePaths # {}

\* the characters a file stem keeps as they are, "_" apart
Word(ch) == ch \in Lower \cup Upper \cup Digits \cup {"-"}

\* the positions of str that hold a character of the kind Word
WordPositions(str) == {i \in 1..Len(str) : Word(str[i])}

\* the j-th smallest element of a set of numbers
Nth(S, j) == CHOOSE x \in S : Cardinality({y \in S : y < x}) = j - 1

\* the j-th Word character of str follows a character that is not one
GapBefore(str, j) ==
    LET i == Nth(WordPositions(str), j) IN i > 1 /\ ~Word(str[i - 1])

\* str ends with a character that is not a Word character
GapAtEnd(str) == str # <<>> /\ ~Word(str[Len(str)])

\* stem is key with every character outside [A-Za-z0-9_-] replaced by "_"
\* and every run of "_" collapsed to one
StemOf(key, stem) ==
    /\ \A i \in 1..Len(stem) : Word(stem[i]) \/ stem[i] = "_"
    /\ \A i \in 1..(Len(stem) - 1) : ~(stem[i] = "_" /\ stem[i + 1] = "_")
    /\ SelectSeq(stem, Word) = SelectSeq(key, Word)
    /\ \A j \in 1..Cardinality(WordPositions(key)) :
           GapBefore(stem, j) <=> GapBefore(key, j)
    /\ GapAtEnd(stem) <=> GapAtEnd(key)

\* the stem has been computed
Stemmed == pc \in {"open_xml", "write_xml", "open_urs", "write_urs", "main"}

\* C10: the file stem is doc_key with every character outside [A-Za-z0-9_-]
\* replaced by "_" and every run of "_" then collapsed to one
\* ("nw/docname:01" gives "nw_docname_01"); the text is written to <stem>.xml
\* in xml_dir and the annotations to <stem>-urs.xml in urs_dir.
FilenameSanitization ==
    /\ Stemmed => StemOf(doc.doc_key, fn)
    /\ (Stemmed /\ doc.doc_key = ExampleKey) =>
           fn = <<"n", "w", "_", "d", "o", "c", "n", "a", "m", "e", "_", "0", "1">>
    /\ (pc = "main" /\ exc = "none" /\ Has(doc, "doc_key")) =>
           /\ DOMAIN fs = { <<xml_dir, fn \o <<".", "x", "m", "l">>>>,
                            <<urs_dir, fn \o <<"-", "u", "r", "s", ".", "x", "m", "l">>>> }
           /\ fs[<<xml_dir, fn \o <<".", "x", "m", "l">>>>] = xml_text
           /\ fs[<<urs_dir, fn \o <<"-", "u", "r", "s", ".", "x", "m", "l">>>>] = xml_urs
           /\ xml_text.body = <<res>>
           /\ xml_urs.body[2] = ures

\* both files of a document are written whose key held a run of characters
\* that became one "_"
FilenameSanitizationReached ==
    /\ pc = "main"
    /\ Has(doc, "doc_key")
    /\ Len(fn) + 1 < Len(doc.doc_key)
    /\ \E i \in 1..Len(fn) : fn[i] = "_"
    /\ Cardinality(DOMAIN fs) = 2

=============================================================================
